---- MODULE Spec2Model ----
(***************************************************************************)
(* Request orchestration of the Melita front-end (src/App.tsx): the React  *)
(* state of App, the AbortControllers created by handleVisualize, the      *)
(* Promise.race of the API call against the timeout timer, and the         *)
(* handlers handleVisualize, handleStop and handleOffline.                 *)
(*                                                                         *)
(* One TLA+ step is one browser task together with the microtasks it       *)
(* leaves behind: a click, an offline/online event, a timer callback or    *)
(* the settlement of the API promise.  The continuation of handleVisualize *)
(* after `await Promise.race` runs in the microtask checkpoint of the task *)
(* that settled the race, so no other handler runs between the settlement  *)
(* and the continuation.                                                   *)
(***************************************************************************)
EXTENDS Integers, FiniteSets, Sequences

\* Number of handleVisualize calls that create a controller in one run.
MaxReq == 3

\* Number of 'offline' events the window delivers in one run.
MaxOffline == 1

ReqIds == 1..MaxReq

\* null of the React state and of abortControllerRef.current
NULL == "null"
NoRef == 0

\* Messages handed to setError (src/App.tsx), without their leading emoji.
LostMsg == "Internet connection lost! Please check your network connection."
NoConnMsg == "No internet connection detected. Please connect to the network and try again."
NetLostMsg == "Network connection lost."
TimeoutMsg == "The operation took too long (20s). Your code may be too complex or the server is unresponsive."
\* Message of the Error analyzeCodeWithGemini throws when API_KEY is empty.
ApiKeyMsg == "API Key not found."
\* Message of the Error the timeout promise rejects with.
TIMEOUT_ERROR == "TIMEOUT_ERROR"

\* Values analyzeCodeWithGemini resolves with (a parsed reply or a fallback).
Results == {"parsedReply", "fallbackReply"}

\* signal.reason of a controller: "none" while it is not aborted, "AbortError"
\* for abort() called without an argument (the default DOMException).
NamedReasons == {"stop", "timeout", "offline"}

VARIABLES
    simulationData,     \* useState: NULL or a result
    isAnalyzing,        \* useState: BOOLEAN
    error,              \* useState: NULL or a message
    abortControllerRef, \* useRef: NoRef or the id of a controller
    controller,         \* id -> [aborted, reason], the AbortSignal of each controller
    closureError,       \* id -> value of `error` captured by that handleVisualize call
    apiPromise,         \* id -> "none" | "pending" | "resolved" | "rejected"
    timer,              \* id -> "none" | "armed" | "fired"
    race,               \* id -> "unborn" | "pending" | "value" | "apiError" | "timeout"
    nreq,               \* number of controllers created so far
    online,             \* navigator.onLine
    offlineEvents,      \* number of 'offline' events delivered so far
    apiKey,             \* whether API_KEY of geminiService.ts is non-empty in this build
    stopped,            \* history: requests handleStop hit while their race was pending
    superseded,         \* history: requests outstanding when a newer one was started
    termWrites,         \* history: id -> setError/setSimulationData calls ending the request
    clears,             \* history: id -> setIsAnalyzing(false) calls made for the request
    last,               \* history: the handler that ran last
    reply,              \* what model.generateContent produces for the request
    client,             \* history: the last run of analyzeCodeWithGemini's try block
    chart,              \* MermaidDiagram prop: the diagram source
    svgContent,         \* MermaidDiagram useState: the drawing shown
    zoomLevel,          \* MermaidDiagram useState, in tenths (10 is scale 1)
    renderError,        \* MermaidDiagram useState `error`: NULL or a message
    renders,            \* id -> [source, status] of each mermaid.render call
    exports,            \* id -> one run of handleDownload
    inputPanel          \* InputPanel: isExtracting, the editor text, the image uploads

appVars == <<simulationData, isAnalyzing, error, abortControllerRef, controller,
             closureError, apiPromise, timer, race, nreq, online, offlineEvents,
             apiKey, stopped, superseded, termWrites, clears, last>>

clientVars == <<reply, client>>

diagramVars == <<chart, svgContent, zoomLevel, renderError, renders, exports>>

panelVars == <<inputPanel>>

vars == <<appVars, clientVars, diagramVars, panelVars>>

visible == <<simulationData, error, isAnalyzing>>

Inc(f, c) == [f EXCEPT ![c] = IF @ < 3 THEN @ + 1 ELSE @]

\* AbortController.abort(reason): the first abort sets aborted and reason, a
\* later abort of the same controller is ignored.
Abort(ctrl, c, why) ==
    IF ctrl[c].aborted THEN ctrl
    ELSE [ctrl EXCEPT ![c] = [aborted |-> TRUE, reason |-> why]]

\* The part of the state the continuation of handleVisualize reads and writes.
St == [data |-> simulationData, analyzing |-> isAnalyzing, err |-> error,
       ctrl |-> controller, writes |-> termWrites, clears |-> clears,
       wroteData |-> FALSE]

Commit(st) ==
    /\ simulationData' = st.data
    /\ isAnalyzing' = st.analyzing
    /\ error' = st.err
    /\ controller' = st.ctrl
    /\ termWrites' = st.writes
    /\ clears' = st.clears

\* Variant of lines 67-70 without the signal.aborted test of line 69.
TryBodyNoAbortedTest(st, c, result) ==
    [st EXCEPT !.data = result, !.writes = Inc(@, c), !.wroteData = TRUE]

\* Lines 67-70: the race resolved with the API result.
TryBody(st, c, result) ==
    IF st.ctrl[c].aborted THEN st
    ELSE [st EXCEPT !.data = result, !.writes = Inc(@, c), !.wroteData = TRUE]

\* Line 89: err.message || "An unexpected error occurred."
UnexpectedMsg == "An unexpected error occurred."
MessageOrDefault(msg) == IF msg = "" THEN UnexpectedMsg ELSE msg

\* Variant of lines 72-91 without controller.abort("timeout") of line 86.
CatchBodyNoTimeoutAbort(st, c, msg) ==
    IF st.ctrl[c].aborted /\ st.ctrl[c].reason = "stop" THEN st
    ELSE IF st.ctrl[c].aborted /\ st.ctrl[c].reason = "offline"
    THEN [st EXCEPT !.err = NetLostMsg, !.writes = Inc(@, c)]
    ELSE IF msg = TIMEOUT_ERROR
    THEN [st EXCEPT !.err = TimeoutMsg, !.writes = Inc(@, c)]
    ELSE [st EXCEPT !.err = MessageOrDefault(msg), !.writes = Inc(@, c)]

\* Lines 72-91: the race rejected with an Error whose message is msg.
CatchBody(st, c, msg) ==
    IF st.ctrl[c].aborted /\ st.ctrl[c].reason = "stop" THEN st
    ELSE IF st.ctrl[c].aborted /\ st.ctrl[c].reason = "offline"
    THEN [st EXCEPT !.err = NetLostMsg, !.writes = Inc(@, c)]
    ELSE IF msg = TIMEOUT_ERROR
    THEN [st EXCEPT !.err = TimeoutMsg, !.writes = Inc(@, c),
                    !.ctrl = Abort(st.ctrl, c, "timeout")]
    ELSE [st EXCEPT !.err = MessageOrDefault(msg), !.writes = Inc(@, c)]

\* Variant of lines 92-97 that never clears the loading flag.
FinallyBodyNeverClears(st, c, closErr) == st

\* Lines 92-97: `error` is the value the call closed over, not the current state.
FinallyBody(st, c, closErr) ==
    IF ~st.ctrl[c].aborted \/ closErr # NULL
    THEN [st EXCEPT !.analyzing = FALSE, !.clears = Inc(@, c)]
    ELSE st

\* The continuation after `await Promise.race(...)`.
AfterRace(st, c, kind, payload, closErr) ==
    FinallyBody(IF kind = "value" THEN TryBody(st, c, payload)
                ELSE CatchBody(st, c, payload), c, closErr)

\* Variant in which a promise that loses the race still resumes the handler.
RaceNeverSettles(c) == race[c] # "unborn"

\* Promise.race is still unsettled for request c.
RacePending(c) == race[c] = "pending"

Outstanding == {c \in ReqIds : race[c] = "pending"}

\* Variant of lines 43-46 that leaves the previous controller alone.
AbortPreviousSkipped(ctrl, ref) == ctrl

\* Lines 43-46: cancel the controller held in the ref, without a reason.
AbortPrevious(ctrl, ref) ==
    IF ref # NoRef THEN Abort(ctrl, ref, "AbortError") ELSE ctrl

\* No reply of the model is under study: the App alone.
NoReply == [kind |-> "none", body |-> <<>>]
ClientIdle == [cleaned |-> <<>>, parsed |-> "none", errorText |-> <<>>,
               returned |-> "none"]

\* Bounds of the MermaidDiagram study: mermaid.render calls, exports, and
\* the largest zoom level (in tenths) the zoom-in button is pressed up to.
MaxRenders == 2
MaxExports == 2
MaxZoom == 12

RenderIds == 1..MaxRenders
ExportIds == 1..MaxExports
\* renders, exports and the uploads of inputPanel list the calls made so far;
\* a call not made yet reads as the "unborn" record.
NoRender == [source |-> "", status |-> "unborn"]
RenderAt(i) == IF i \in DOMAIN renders THEN renders[i] ELSE NoRender
NoExport == [stage |-> "unborn", measuredWidth |-> 0, measuredHeight |-> 0,
             width |-> 0, height |-> 0, canvasWidth |-> 0, canvasHeight |-> 0,
             png |-> 0, svg |-> 0, threw |-> FALSE]
ExportAt(e) == IF e \in DOMAIN exports THEN exports[e] ELSE NoExport

\* No MermaidDiagram is on screen: the values of lines 231-234 and an empty prop.
DiagramUnmounted ==
    /\ chart = ""
    /\ svgContent = ""
    /\ zoomLevel = 10
    /\ renderError = NULL
    /\ renders = <<>>
    /\ exports = <<>>

\* Number of image uploads.
MaxUploads == 2

UploadIds == 1..MaxUploads
NoUpload == [stage |-> "unborn", failed |-> "none", replyText |-> <<>>, value |-> <<>>]
UploadAt(u) == IF u \in DOMAIN inputPanel.uploads THEN inputPanel.uploads[u] ELSE NoUpload

\* InputPanel as mounted (lines 471-473) with an empty editor (App.tsx line 15).
PanelIdle == [isExtracting |-> FALSE, code |-> <<>>, uploads |-> <<>>]

AppInit ==
    /\ simulationData = NULL
    /\ isAnalyzing = FALSE
    /\ error = NULL
    /\ abortControllerRef = NoRef
    /\ controller = [c \in ReqIds |-> [aborted |-> FALSE, reason |-> "none"]]
    /\ closureError = [c \in ReqIds |-> NULL]
    /\ apiPromise = [c \in ReqIds |-> "none"]
    /\ timer = [c \in ReqIds |-> "none"]
    /\ race = [c \in ReqIds |-> "unborn"]
    /\ nreq = 0
    /\ online = TRUE
    /\ offlineEvents = 0
    /\ apiKey \in BOOLEAN
    /\ stopped = {}
    /\ superseded = {}
    /\ termWrites = [c \in ReqIds |-> 0]
    /\ clears = [c \in ReqIds |-> 0]
    /\ last = [op |-> "init", r |-> NoRef, wroteData |-> FALSE]

Init ==
    /\ AppInit
    /\ reply = NoReply
    /\ client = ClientIdle
    /\ DiagramUnmounted
    /\ inputPanel = PanelIdle

\* Variant of lines 36-41 without the `return` of line 40: the call goes on
\* to lines 43-53.
HandleVisualizeOfflineNoReturn ==
    /\ UNCHANGED <<clientVars, diagramVars, panelVars>>
    /\ ~isAnalyzing
    /\ ~online
    /\ error' = NULL
    /\ isAnalyzing' = TRUE
    /\ simulationData' = NULL
    /\ controller' = AbortPrevious(controller, abortControllerRef)
    /\ last' = [op |-> "visualizeOffline", r |-> NoRef, wroteData |-> FALSE]
    /\ UNCHANGED <<abortControllerRef, closureError, apiPromise, timer, race,
                   nreq, online, offlineEvents, apiKey, stopped, superseded,
                   termWrites, clears>>

\* handleVisualize, lines 36-41: the VISUALIZE button is rendered only while
\* isAnalyzing is false (InputPanel); without connectivity only setError runs.
HandleVisualizeOffline ==
    /\ UNCHANGED <<clientVars, diagramVars, panelVars>>
    /\ ~isAnalyzing
    /\ ~online
    /\ error' = NoConnMsg
    /\ last' = [op |-> "visualizeOffline", r |-> NoRef, wroteData |-> FALSE]
    /\ UNCHANGED <<simulationData, isAnalyzing, abortControllerRef, controller,
                   closureError, apiPromise, timer, race, nreq, online,
                   offlineEvents, apiKey, stopped, superseded, termWrites, clears>>

\* handleVisualize, lines 43-67, up to the await.  When API_KEY is empty
\* analyzeCodeWithGemini returns an already rejected promise, and the catch
\* and finally blocks run before any other task.
HandleVisualize ==
    /\ UNCHANGED <<clientVars, diagramVars, panelVars>>
    /\ ~isAnalyzing
    /\ online
    /\ nreq < MaxReq
    /\ LET c == nreq + 1
           st0 == [St EXCEPT !.ctrl = AbortPrevious(controller, abortControllerRef),
                             !.analyzing = TRUE, !.err = NULL, !.data = NULL]
       IN  /\ nreq' = c
           /\ abortControllerRef' = c
           /\ closureError' = [closureError EXCEPT ![c] = error]
           /\ timer' = [timer EXCEPT ![c] = "armed"]
           /\ superseded' = superseded \cup Outstanding
           /\ IF apiKey
              THEN /\ apiPromise' = [apiPromise EXCEPT ![c] = "pending"]
                   /\ race' = [race EXCEPT ![c] = "pending"]
                   /\ Commit(st0)
              ELSE /\ apiPromise' = [apiPromise EXCEPT ![c] = "rejected"]
                   /\ race' = [race EXCEPT ![c] = "apiError"]
                   /\ Commit(AfterRace(st0, c, "error", ApiKeyMsg, error))
           /\ last' = [op |-> "visualize", r |-> c, wroteData |-> FALSE]
    /\ UNCHANGED <<online, offlineEvents, apiKey, stopped>>

\* The API promise of request c resolves with result (lines 56, 67-70, 92-97).
ApiResolve(c, result) ==
    /\ apiPromise[c] = "pending"
    /\ apiPromise' = [apiPromise EXCEPT ![c] = "resolved"]
    /\ IF RacePending(c)
       THEN LET st == AfterRace(St, c, "value", result, closureError[c])
            IN  /\ race' = [race EXCEPT ![c] = "value"]
                /\ Commit(st)
                /\ last' = [op |-> "api", r |-> c, wroteData |-> st.wroteData]
       ELSE /\ UNCHANGED <<race, simulationData, isAnalyzing, error, controller,
                           termWrites, clears>>
            /\ last' = [op |-> "api", r |-> c, wroteData |-> FALSE]
    /\ UNCHANGED <<abortControllerRef, closureError, timer, nreq, online,
                   offlineEvents, apiKey, stopped, superseded>>

\* Variant in which the timer's rejection resumes the handler although the
\* race has settled.
TimerFireAfterSettled(c) ==
    /\ UNCHANGED <<clientVars, diagramVars, panelVars>>
    /\ timer[c] = "armed"
    /\ \A d \in ReqIds : d < c => timer[d] # "armed"
    /\ timer' = [timer EXCEPT ![c] = "fired"]
    /\ race' = [race EXCEPT ![c] = "timeout"]
    /\ Commit(AfterRace(St, c, "error", TIMEOUT_ERROR, closureError[c]))
    /\ last' = [op |-> "timer", r |-> c, wroteData |-> FALSE]
    /\ UNCHANGED <<abortControllerRef, closureError, apiPromise, nreq, online,
                   offlineEvents, apiKey, stopped, superseded>>

\* The setTimeout callback of request c runs (lines 59-64).  All timers have the
\* same duration, so they fire in the order in which they were armed.
TimerFire(c) ==
    /\ UNCHANGED <<clientVars, diagramVars, panelVars>>
    /\ timer[c] = "armed"
    /\ \A d \in ReqIds : d < c => timer[d] # "armed"
    /\ timer' = [timer EXCEPT ![c] = "fired"]
    /\ IF RacePending(c)
       THEN /\ race' = [race EXCEPT ![c] = "timeout"]
            /\ Commit(AfterRace(St, c, "error", TIMEOUT_ERROR, closureError[c]))
       ELSE UNCHANGED <<race, simulationData, isAnalyzing, error, controller,
                        termWrites, clears>>
    /\ last' = [op |-> "timer", r |-> c, wroteData |-> FALSE]
    /\ UNCHANGED <<abortControllerRef, closureError, apiPromise, nreq, online,
                   offlineEvents, apiKey, stopped, superseded>>

\* handleStop, lines 100-106; the STOP button is rendered only while isAnalyzing.
HandleStop ==
    /\ UNCHANGED <<clientVars, diagramVars, panelVars>>
    /\ isAnalyzing
    /\ IF abortControllerRef # NoRef
       THEN /\ controller' = Abort(controller, abortControllerRef, "stop")
            /\ abortControllerRef' = NoRef
            /\ clears' = Inc(clears, abortControllerRef)
            /\ stopped' = IF RacePending(abortControllerRef)
                          THEN stopped \cup {abortControllerRef} ELSE stopped
       ELSE UNCHANGED <<controller, abortControllerRef, clears, stopped>>
    /\ isAnalyzing' = FALSE
    /\ last' = [op |-> "stop", r |-> abortControllerRef, wroteData |-> FALSE]
    /\ UNCHANGED <<simulationData, error, closureError, apiPromise, timer, race,
                   nreq, online, offlineEvents, apiKey, superseded, termWrites>>

\* The window 'offline' event and handleOffline, lines 24-34.
HandleOffline ==
    /\ UNCHANGED <<clientVars, diagramVars, panelVars>>
    /\ online
    /\ offlineEvents < MaxOffline
    /\ offlineEvents' = offlineEvents + 1
    /\ online' = FALSE
    /\ IF isAnalyzing /\ abortControllerRef # NoRef
       THEN /\ controller' = Abort(controller, abortControllerRef, "offline")
            /\ isAnalyzing' = FALSE
            /\ error' = LostMsg
            /\ termWrites' = Inc(termWrites, abortControllerRef)
            /\ clears' = Inc(clears, abortControllerRef)
       ELSE UNCHANGED <<controller, isAnalyzing, error, termWrites, clears>>
    /\ last' = [op |-> "offline", r |-> abortControllerRef, wroteData |-> FALSE]
    /\ UNCHANGED <<simulationData, abortControllerRef, closureError, apiPromise,
                   timer, race, nreq, apiKey, stopped, superseded>>

\* Connectivity comes back: navigator.onLine becomes true, no handler is registered.
GoOnline ==
    /\ UNCHANGED <<clientVars, diagramVars, panelVars>>
    /\ ~online
    /\ online' = TRUE
    /\ last' = [op |-> "online", r |-> NoRef, wroteData |-> FALSE]
    /\ UNCHANGED <<simulationData, isAnalyzing, error, abortControllerRef, controller,
                   closureError, apiPromise, timer, race, nreq, offlineEvents, apiKey,
                   stopped, superseded, termWrites, clears>>

\* The API promise settles in a run that studies the App alone.
ApiSettles(c, result) ==
    /\ ApiResolve(c, result)
    /\ UNCHANGED <<clientVars, diagramVars, panelVars>>

Next ==
    \/ HandleVisualizeOffline
    \/ HandleVisualize
    \/ \E c \in ReqIds, result \in Results : ApiSettles(c, result)
    \/ \E c \in ReqIds : TimerFire(c)
    \/ HandleStop
    \/ HandleOffline
    \/ GoOnline

Spec == Init /\ [][Next]_vars

TypeOK ==
    /\ simulationData \in Results \cup {NULL}
    /\ isAnalyzing \in BOOLEAN
    /\ error \in {NULL, LostMsg, NoConnMsg, NetLostMsg, TimeoutMsg, ApiKeyMsg}
    /\ abortControllerRef \in ReqIds \cup {NoRef}
    /\ nreq \in 0..MaxReq
    /\ \A c \in ReqIds : controller[c].aborted <=> controller[c].reason # "none"

(***************************************************************************)
(* Properties of the request orchestration.                                *)
(***************************************************************************)

Settled(c) == race[c] \in {"value", "apiError", "timeout"}

\* A live handle: its controller is not aborted and its race is unsettled.
Live == {c \in ReqIds : race[c] = "pending" /\ ~controller[c].aborted}

\* The step just taken is a completion (API settlement or timer callback) of c.
CompletionOf(c) == last'.op \in {"api", "timer"} /\ last'.r = c

\* C1: a result is written to simulationData (line 70) only by a request whose
\* own controller is not aborted and is the one held in abortControllerRef at
\* that moment; a stopped, superseded, timed-out or offline-aborted request
\* never writes it.
C1_WriteOnlyFromCurrentHandle ==
    last.wroteData =>
        /\ ~controller[last.r].aborted
        /\ abortControllerRef = last.r
        /\ race[last.r] = "value"
        /\ last.r \notin stopped \cup superseded
        /\ simulationData \in Results

\* C1 witness: the current request commits its result after an earlier request
\* was stopped and that request's API call has resolved too.
C1_Witness ==
    /\ last.wroteData
    /\ \E c \in stopped : apiPromise[c] = "resolved" /\ c # last.r

\* C2: once handleStop has run while a request was outstanding, no later
\* completion of that request changes simulationData, error or isAnalyzing.
C2_StoppedRequestIsSilent ==
    [][\A c \in ReqIds : (CompletionOf(c) /\ c \in stopped) => UNCHANGED visible]_vars

\* C3: when handleVisualize starts a request while an earlier one is
\* outstanding, the earlier controller is aborted when the new one is
\* installed, and no later completion of the earlier request changes
\* simulationData, error or isAnalyzing.
C3_SupersededRequestIsSilent ==
    [][/\ last'.op = "visualize" =>
            \A c \in Outstanding : controller'[c].aborted
       /\ \A c \in ReqIds :
            (CompletionOf(c) /\ c \in superseded) => UNCHANGED visible]_vars

\* C4: a request whose race has settled and which has not been followed by a
\* newer request leaves isAnalyzing false, and after a timeout the timeout
\* message is shown.
C4_SettledRequestClearsLoading ==
    \A c \in ReqIds :
        (Settled(c) /\ nreq = c) =>
            /\ ~isAnalyzing
            /\ (race[c] = "timeout" /\ controller[c].reason = "timeout")
                  => error = TimeoutMsg

\* C5: when the timer of a request fires while its race is unsettled and its
\* controller is not aborted, error becomes the timeout message, simulationData
\* stays null and the controller ends aborted with reason "timeout".
C5_TimeoutOutcome ==
    [][\A c \in ReqIds :
        (last'.op = "timer" /\ last'.r = c /\ RacePending(c) /\ ~controller[c].aborted)
        => /\ error' = TimeoutMsg
           /\ simulationData = NULL /\ simulationData' = NULL
           /\ controller'[c] = [aborted |-> TRUE, reason |-> "timeout"]]_vars

\* C5 witness: a timer has just fired first for a request that was not aborted.
C5_Witness ==
    /\ last.op = "timer"
    /\ race[last.r] = "timeout"
    /\ controller[last.r].reason = "timeout"
    /\ error = TimeoutMsg
    /\ apiPromise[last.r] = "pending"

\* C6: after the timer of a request has fired first, the later settlement of
\* that request's API call changes none of simulationData, error, isAnalyzing.
C6_LateApiAfterTimeoutIsSilent ==
    [][\A c \in ReqIds :
        (last'.op = "api" /\ last'.r = c /\ race[c] = "timeout")
        => (UNCHANGED visible /\ UNCHANGED controller)]_vars

\* C6 witness: the API call of a timed-out request has just resolved while a
\* newer request is loading and the old request closed over a non-null error.
C6_Witness ==
    /\ last.op = "api"
    /\ race[last.r] = "timeout"
    /\ apiPromise[last.r] = "resolved"
    /\ closureError[last.r] # NULL
    /\ isAnalyzing

\* C7: every request gets exactly one terminal transition: error and
\* simulationData are written for it at most once in total, and isAnalyzing is
\* cleared for it at most once, and exactly once when its race has settled.
C7_OneTerminalTransition ==
    \A c \in ReqIds :
        /\ termWrites[c] <= 1
        /\ clears[c] <= 1
        /\ Settled(c) => clears[c] = 1

\* C8: every aborted controller carries one of the reasons "stop", "timeout",
\* "offline".
C8_AbortReasonIsNamed ==
    \A c \in ReqIds : controller[c].aborted => controller[c].reason \in NamedReasons

\* C9: at most one handle is live in every state, and every handleVisualize
\* call that passes the connectivity check installs a controller that did not
\* exist before.
C9_AtMostOneLiveHandle ==
    [][/\ Cardinality(Live') <= 1
       /\ last'.op = "visualize" =>
            /\ race[abortControllerRef'] = "unborn"
            /\ abortControllerRef' # abortControllerRef
            /\ abortControllerRef' = last'.r]_vars

\* C9 witness: a request was started while the handle in the ref was still
\* live; that handle is now aborted without having settled.
C9_Witness ==
    /\ last.op = "visualize"
    /\ race[last.r] = "pending"
    /\ \E c \in ReqIds : /\ c # last.r
                         /\ race[c] = "pending"
                         /\ controller[c].reason = "AbortError"

\* C10: handleStop clears isAnalyzing in its own step; a handle held in the
\* ref ends that step aborted with reason "stop", and the ref is cleared.
C10_StopIsSynchronous ==
    [][last'.op = "stop" =>
        /\ ~isAnalyzing'
        /\ abortControllerRef # NoRef =>
              /\ controller'[abortControllerRef] = [aborted |-> TRUE, reason |-> "stop"]
              /\ abortControllerRef' = NoRef]_vars

\* C11: an offline event that arrives while isAnalyzing is true and a handle
\* exists leaves the handle aborted with reason "offline", isAnalyzing false
\* and error the connection-lost message; handleStop never sets error.
C11_OfflineOutcome ==
    [][/\ (last'.op = "offline" /\ isAnalyzing /\ abortControllerRef # NoRef) =>
            /\ controller'[abortControllerRef] = [aborted |-> TRUE, reason |-> "offline"]
            /\ ~isAnalyzing'
            /\ error' = LostMsg
       /\ last'.op = "stop" => error' = error]_vars

\* C12: handleVisualize called without connectivity sets error to the
\* no-connection message and changes nothing else: no controller is created
\* or aborted, no API call or timer is started, isAnalyzing and simulationData
\* keep their values.
C12_OfflineVisualizeOnlySetsError ==
    [][last'.op = "visualizeOffline" =>
        /\ ~online
        /\ error' = NoConnMsg
        /\ UNCHANGED <<simulationData, isAnalyzing, abortControllerRef, controller,
                       apiPromise, timer, race, nreq>>]_vars

\* C12 witness: handleVisualize has just run without connectivity while the
\* ref holds the un-aborted controller of a finished request and its result.
C12_Witness ==
    /\ last.op = "visualizeOffline"
    /\ error = NoConnMsg
    /\ abortControllerRef # NoRef
    /\ ~controller[abortControllerRef].aborted
    /\ simulationData \in Results
    /\ \E c \in ReqIds : timer[c] = "armed"

\* C14: analyzeCodeWithGemini never rejects: no request's API promise is ever
\* rejected.
C14_ApiNeverRejects ==
    \A c \in ReqIds : apiPromise[c] # "rejected"

(***************************************************************************)
(* The analysis client (src/services/geminiService.ts).                    *)
(*                                                                         *)
(* A text is a sequence of symbols.  A symbol is one character (a         *)
(* backtick, a brace, a blank) or a fixed run of characters that holds no  *)
(* backtick, no brace and no white space at its ends, so that the scans of *)
(* cleanJsonString treat it as a unit.  Quotation marks inside the runs    *)
(* are left out of the symbol names.                                       *)
(***************************************************************************)

\* Number of pieces a reply text is put together from.
MaxParts == 3

\* The backtick character.
BT == "backtick"
LB == "{"
RB == "}"
WS == " "
JSONWORD == "json"
NOISE == "noise"
N429 == "429"
\* Members of a reply object: all five fields, the five fields with an
\* explanation that mentions a quota, and the two fields the prompt of line
\* 117 asks for when the input is not code.
FIVE == "explanation:e,timeComplexity:t,spaceComplexity:s,optimizationTip:o,mermaidGraph:g"
FIVEQ == "explanation:Quota check loop,timeComplexity:t,spaceComplexity:s,optimizationTip:o,mermaidGraph:g"
TWO == "mermaidGraph:graph TD; E[Not Code],explanation:Invalid input."

Pieces == { <<BT, BT, BT, JSONWORD>>, <<BT, BT, BT>>, <<WS>>, <<LB>>, <<RB>>,
            <<NOISE>>, <<N429>>, <<LB, FIVE, RB>>, <<LB, FIVEQ, RB>>, <<LB, TWO, RB>> }

RECURSIVE Flatten(_)
Flatten(ps) == IF ps = <<>> THEN <<>> ELSE Head(ps) \o Flatten(Tail(ps))

Texts == { Flatten(ps) : ps \in UNION { [1..n -> Pieces] : n \in 0..MaxParts } }

\* Messages of the errors model.generateContent throws.
E429 == "[429 Too Many Requests] Resource has been exhausted (e.g. check quota)."
E503 == "[503 Service Unavailable] The model is overloaded."
EBODY == "Unexpected token < in JSON at position 0"
UpstreamErrors == { <<E429>>, <<E503>>, <<EBODY>> }

Replies == { [kind |-> "text", body |-> t] : t \in Texts }
           \cup { [kind |-> "error", body |-> e] : e \in UpstreamErrors }

\* pat occurs in s at position i (1-based).
MatchesAt(s, i, pat) ==
    /\ i + Len(pat) - 1 <= Len(s)
    /\ \A k \in 1..Len(pat) : s[i + k - 1] = pat[k]

\* String.prototype.replace(/pat/g, ): one left-to-right scan over the
\* original text, matches do not overlap, the result is not scanned again.
RECURSIVE ReplaceFrom(_, _, _)
ReplaceFrom(s, i, pat) ==
    IF i > Len(s) THEN <<>>
    ELSE IF MatchesAt(s, i, pat) THEN ReplaceFrom(s, i + Len(pat), pat)
    ELSE <<s[i]>> \o ReplaceFrom(s, i + 1, pat)

ReplaceAll(s, pat) == ReplaceFrom(s, 1, pat)

\* String.prototype.trim
RECURSIVE TrimStart(_)
TrimStart(s) == IF s # <<>> /\ Head(s) = WS THEN TrimStart(Tail(s)) ELSE s

RECURSIVE TrimEnd(_)
TrimEnd(s) ==
    IF s # <<>> /\ s[Len(s)] = WS THEN TrimEnd(SubSeq(s, 1, Len(s) - 1)) ELSE s

Trim(s) == TrimEnd(TrimStart(s))

\* indexOf and lastIndexOf: 0-based, -1 when the symbol does not occur.
IndexOf(s, sym) ==
    IF \E i \in 1..Len(s) : s[i] = sym
    THEN (CHOOSE i \in 1..Len(s) : s[i] = sym /\ \A k \in 1..(i - 1) : s[k] # sym) - 1
    ELSE -1

LastIndexOf(s, sym) ==
    IF \E i \in 1..Len(s) : s[i] = sym
    THEN (CHOOSE i \in 1..Len(s) :
              s[i] = sym /\ \A k \in (i + 1)..Len(s) : s[k] # sym) - 1
    ELSE -1

\* String.prototype.substring(start, end), 0-based, end exclusive: arguments
\* are clamped to 0..length and swapped when start is greater than end.
Clamp(n, len) == IF n < 0 THEN 0 ELSE IF n > len THEN len ELSE n

Substring(s, start, end) ==
    LET a == Clamp(start, Len(s))
        b == Clamp(end, Len(s))
        lo == IF a <= b THEN a ELSE b
        hi == IF a <= b THEN b ELSE a
    IN  SubSeq(s, lo + 1, hi)

FenceJson == <<BT, BT, BT, JSONWORD>>
Fence == <<BT, BT, BT>>

\* Lines 10-18.
cleanJsonString(str) ==
    LET cleaned == Trim(ReplaceAll(ReplaceAll(str, FenceJson), Fence))
        firstBrace == IndexOf(cleaned, LB)
        lastBrace == LastIndexOf(cleaned, RB)
    IN  IF firstBrace # -1 /\ lastBrace # -1
        THEN Substring(cleaned, firstBrace, lastBrace + 1)
        ELSE cleaned

\* Values of the reply objects and of the three fallbacks, by name.
FiveFields == {"explanation", "mermaidGraph", "timeComplexity", "spaceComplexity",
               "optimizationTip"}
QuotaFallback == "fallback: QUOTA EXCEEDED"
ParsingFallback == "fallback: PARSING ERROR"
GenericFallback == "fallback: Complex / Large Logic"
Fallbacks == {QuotaFallback, ParsingFallback, GenericFallback}

\* Own enumerable properties of a value JSON.parse or getFallbackResponse gives.
FieldsOf(v) ==
    IF v \in Fallbacks \cup {"object: FIVE", "object: FIVEQ"} THEN FiveFields
    ELSE IF v = "object: TWO" THEN {"mermaidGraph", "explanation"}
    ELSE {}

IsObject(v) == v \in Fallbacks \cup {"object: FIVE", "object: FIVEQ", "object: TWO",
                                     "object: empty"}

RemoveWS(s) == SelectSeq(s, LAMBDA x : x # WS)

\* JSON.parse on the texts above: an object with one of the member runs or
\* with no member, or a number made of the digits 429; white space is allowed
\* around every token; everything else is a SyntaxError.
JsonParse(s) ==
    LET t == Trim(s)
    IN  IF t = <<>> THEN "SyntaxError"
        ELSE IF \A i \in 1..Len(t) : t[i] = N429 THEN "number"
        ELSE IF Len(t) >= 2 /\ t[1] = LB /\ t[Len(t)] = RB
        THEN LET inner == RemoveWS(SubSeq(t, 2, Len(t) - 1))
             IN  IF inner = <<>> THEN "object: empty"
                 ELSE IF inner = <<FIVE>> THEN "object: FIVE"
                 ELSE IF inner = <<FIVEQ>> THEN "object: FIVEQ"
                 ELSE IF inner = <<TWO>> THEN "object: TWO"
                 ELSE "SyntaxError"
        ELSE "SyntaxError"

\* Line 152: "JSON Parse Error: " + e.  The text of a SyntaxError is chosen
\* by the JavaScript engine: some engines quote the offending input in it.
PARSE_PREFIX == "JSON Parse Error: "
SYNTAX_ERROR == "SyntaxError: Unexpected token"
ParseErrorText(cleaned, quotesInput) ==
    <<PARSE_PREFIX, SYNTAX_ERROR>> \o (IF quotesInput THEN cleaned ELSE <<>>)

\* String.prototype.toLowerCase on one symbol.
Lower(sym) ==
    IF sym = FIVEQ THEN "explanation:quota check loop,timecomplexity:t,spacecomplexity:s,optimizationtip:o,mermaidgraph:g"
    ELSE IF sym = FIVE THEN "explanation:e,timecomplexity:t,spacecomplexity:s,optimizationtip:o,mermaidgraph:g"
    ELSE IF sym = TWO THEN "mermaidgraph:graph td; e[not code],explanation:invalid input."
    ELSE IF sym = E429 THEN "[429 too many requests] resource has been exhausted (e.g. check quota)."
    ELSE IF sym = E503 THEN "[503 service unavailable] the model is overloaded."
    ELSE IF sym = EBODY THEN "unexpected token < in json at position 0"
    ELSE IF sym = PARSE_PREFIX THEN "json parse error: "
    ELSE IF sym = SYNTAX_ERROR THEN "syntaxerror: unexpected token"
    ELSE sym

\* Variant of line 27 without toLowerCase.
ToLowerCaseSkipped(s) == s

ToLowerCase(s) == [i \in 1..Len(s) |-> Lower(s[i])]

\* The words of lines 31 and 50 that occur, in this letter case, in a symbol.
WordsIn(sym) ==
    IF sym = N429 THEN {"429"}
    ELSE IF sym = JSONWORD THEN {"json"}
    ELSE IF sym = Lower(FIVEQ) THEN {"quota"}
    ELSE IF sym = E429 THEN {"429", "quota", "exhausted"}
    ELSE IF sym = Lower(E429) THEN {"429", "quota", "exhausted"}
    ELSE IF sym = Lower(EBODY) THEN {"json"}
    ELSE IF sym = Lower(PARSE_PREFIX) THEN {"json"}
    ELSE IF sym = Lower(SYNTAX_ERROR) THEN {"syntax"}
    ELSE {}

\* String.prototype.includes
Includes(s, word) == \E i \in 1..Len(s) : word \in WordsIn(s[i])

\* Variant of lines 26-84 that tests the malformed-response words first.
getFallbackResponseParseFirst(errorText) ==
    LET msg == ToLowerCase(errorText)
    IN  IF Includes(msg, "json") \/ Includes(msg, "syntax") THEN ParsingFallback
        ELSE IF Includes(msg, "429") \/ Includes(msg, "quota") \/ Includes(msg, "exhausted")
        THEN QuotaFallback
        ELSE GenericFallback

\* Lines 26-84.
getFallbackResponse(errorText) ==
    LET msg == ToLowerCase(errorText)
    IN  IF Includes(msg, "429") \/ Includes(msg, "quota") \/ Includes(msg, "exhausted")
        THEN QuotaFallback
        ELSE IF Includes(msg, "json") \/ Includes(msg, "syntax") THEN ParsingFallback
        ELSE GenericFallback

\* Lines 143-159: the try block of analyzeCodeWithGemini for one outcome of
\* model.generateContent.
analyzeCodeWithGemini(rep, quotesInput) ==
    IF rep.kind = "error"
    THEN [cleaned |-> <<>>, parsed |-> "none", errorText |-> rep.body,
          returned |-> getFallbackResponse(rep.body)]
    ELSE LET cleaned == cleanJsonString(rep.body)
             parsed == JsonParse(cleaned)
             errorText == ParseErrorText(cleaned, quotesInput)
         IN  IF parsed = "SyntaxError"
             THEN [cleaned |-> cleaned, parsed |-> parsed, errorText |-> errorText,
                   returned |-> getFallbackResponse(errorText)]
             ELSE [cleaned |-> cleaned, parsed |-> parsed, errorText |-> <<>>,
                   returned |-> parsed]

ClientInit ==
    /\ AppInit
    /\ reply \in Replies
    /\ client = ClientIdle
    /\ DiagramUnmounted
    /\ inputPanel = PanelIdle

\* The user starts the one analysis whose reply is studied.
ClientVisualize ==
    /\ nreq = 0
    /\ HandleVisualize

\* model.generateContent settles; analyzeCodeWithGemini returns and, in the
\* same task, handleVisualize resumes with the value (lines 143-159 of the
\* client, lines 67-70 and 92-97 of App).
ClientReturns(quotesInput) ==
    /\ reply.kind # "none"
    /\ client = ClientIdle
    /\ LET a == analyzeCodeWithGemini(reply, quotesInput)
       IN  /\ client' = a
           /\ ApiResolve(1, a.returned)
    /\ UNCHANGED <<reply, diagramVars, panelVars>>

ClientNext ==
    \/ ClientVisualize
    \/ \E quotesInput \in BOOLEAN : ClientReturns(quotesInput)

SpecClient == ClientInit /\ [][ClientNext]_vars

\* src/types.ts lines 1-7: a SimulationResponse carries all five fields.
IsAnalysisResult(v) == IsObject(v) /\ FieldsOf(v) = FiveFields

\* The messages handleVisualize and handleOffline put in error, by category.
ConnectivityMsgs == {NoConnMsg, NetLostMsg, LostMsg}
TimeoutMsgs == {TimeoutMsg}
UnexpectedMsgs == {ApiKeyMsg}

\* C13: once the request has settled, either simulationData holds an
\* AnalysisResult with all five fields, whatever text the model replied, or
\* nothing was written and error holds a message of exactly one of the
\* categories connectivity, timeout, unexpected.
C13_WrittenDataIsWellFormed ==
    \A c \in ReqIds :
        Settled(c) =>
            \/ /\ simulationData # NULL
               /\ IsAnalysisResult(simulationData)
               /\ error = NULL
            \/ /\ simulationData = NULL
               /\ error \in ConnectivityMsgs \cup TimeoutMsgs \cup UnexpectedMsgs

\* The mermaidGraph of each fallback (lines 33-40, 52-59, 71-78), by its
\* title node.
QUOTA_GRAPH == "graph TD; Error[QUOTA EXCEEDED] --> Desc[API Limit Reached] --> Wait"
PARSING_GRAPH == "graph TD; Error[PARSING ERROR] --> Desc[AI Response Malformed] --> Retry"
GENERIC_GRAPH == "graph TD; Start --> Note[Complex / Large Logic] --> Summary --> End"
mermaidGraphOf(v) ==
    IF v = QuotaFallback THEN QUOTA_GRAPH
    ELSE IF v = ParsingFallback THEN PARSING_GRAPH
    ELSE IF v = GenericFallback THEN GENERIC_GRAPH
    ELSE "graph of the reply"

QuotaWords == {"429", "quota", "exhausted"}
MentionsQuota(text) == \E w \in QuotaWords : Includes(ToLowerCase(text), w)
ClientDone == client.returned # "none"

\* C15 as stated: every reply text that contains "429", "quota" or
\* "exhausted" in any letter case makes analyzeCodeWithGemini return the
\* quota-exceeded fallback with the fixed QUOTA EXCEEDED diagram.
C15_QuotaReplyGivesQuotaFallback ==
    (ClientDone /\ reply.kind = "text" /\ MentionsQuota(reply.body)) =>
        /\ client.returned = QuotaFallback
        /\ mermaidGraphOf(client.returned) = QUOTA_GRAPH

\* C15 amended: every failure whose error text contains "429", "quota" or
\* "exhausted" in any letter case gives the quota-exceeded fallback with the
\* fixed QUOTA EXCEEDED diagram; a reply that parses as JSON is returned as
\* parsed, whether or not it contains these words.
C15_QuotaErrorGivesQuotaFallback ==
    ClientDone =>
        /\ (client.errorText # <<>> /\ MentionsQuota(client.errorText)) =>
               /\ client.returned = QuotaFallback
               /\ mermaidGraphOf(client.returned) = QUOTA_GRAPH
        /\ client.parsed \notin {"none", "SyntaxError"} =>
               client.returned = client.parsed

C15_Witness ==
    /\ reply.kind = "text"
    /\ client.parsed = "SyntaxError"
    /\ MentionsQuota(client.errorText)
    /\ client.returned = QuotaFallback
    /\ simulationData = QuotaFallback

\* C16: every reply that cannot be parsed as JSON after cleanJsonString makes
\* analyzeCodeWithGemini return the PARSING ERROR fallback, never the generic
\* fallback.
C16_UnparseableGivesParsingFallback ==
    (ClientDone /\ reply.kind = "text" /\ JsonParse(cleanJsonString(reply.body)) = "SyntaxError")
        => /\ client.returned = ParsingFallback
           /\ client.returned # GenericFallback

\* The reply text with every fence marker removed and the outer white space
\* trimmed.
Remaining(text) == Trim(ReplaceAll(ReplaceAll(text, FenceJson), Fence))

FirstPos(s, sym) == CHOOSE i \in 1..Len(s) : s[i] = sym /\ \A k \in 1..(i - 1) : s[k] # sym
LastPos(s, sym) == CHOOSE i \in 1..Len(s) : s[i] = sym /\ \A k \in (i + 1)..Len(s) : s[k] # sym
Has(s, sym) == \E i \in 1..Len(s) : s[i] = sym

\* C17: cleanJsonString leaves no fence marker and no outer white space;
\* when the remaining text has both braces the result is exactly its part
\* from the first "{" through the last "}", so a fenced or noise-surrounded
\* object comes back as the object text; text without braces comes back
\* with only fences and outer white space removed.
C17_CleanJsonString ==
    (ClientDone /\ reply.kind = "text") =>
        LET rem == Remaining(reply.body)
        IN  /\ \A i \in 1..Len(client.cleaned) : ~MatchesAt(client.cleaned, i, Fence)
            /\ client.cleaned = Trim(client.cleaned)
            /\ (Has(rem, LB) /\ Has(rem, RB)) =>
                   client.cleaned = SubSeq(rem, FirstPos(rem, LB), LastPos(rem, RB))
            /\ ~(Has(rem, LB) \/ Has(rem, RB)) => client.cleaned = rem

(***************************************************************************)
(* MermaidDiagram (src/components/OutputPanel.tsx lines 230-407), studied  *)
(* as one mounted component whose chart prop is changed by its parent.     *)
(* zoomLevel is counted in tenths, the step of the zoom buttons.           *)
(***************************************************************************)

\* Diagram sources: none, two that mermaid draws, one it rejects.
CHART_A == "graph TD; A --> B"
CHART_B == "graph TD; B --> C"
CHART_BAD == "graph TD; A -->"
Charts == {"", CHART_A, CHART_B, CHART_BAD}

\* mermaid.render(id, chart): resolves with the drawing of a source it can
\* parse and rejects otherwise.
MermaidAccepts(src) == src \in {CHART_A, CHART_B}
Drawing(src) ==
    IF src = CHART_A THEN "<svg>A --> B</svg>"
    ELSE IF src = CHART_B THEN "<svg>B --> C</svg>"
    ELSE ""

FailedMsg == "Failed to render diagram."

\* getBoundingClientRect of the drawing gives fractions of a pixel (the box
\* is scaled by zoomLevel): lengths are counted in tenths of a pixel.  A
\* collapsed box, one of 40 pixels and one of 40.5 pixels.
TENTHS == 10
Measured == {0, 400, 405}

\* Line 307: scale.
SCALE == 3

\* Lines 309-310: canvas.width = width * scale.  The attribute is an unsigned
\* long, so the product (in tenths) is cut to whole pixels.
CanvasSize(len) == (len * SCALE) \div TENTHS

RendersStarted == Len(renders)
ExportsStarted == Len(exports)

\* Lines 367-373: with an error the component returns the error view, which
\* has no render container, so containerRef.current is null.
ContainerMounted == renderError = NULL

\* What the pane shows: the error message, or the drawing ("" is a blank pane).
Shown == IF renderError # NULL THEN renderError ELSE svgContent

\* Lines 241-256 up to the await: the effect of a new chart value.
RenderChart(src) ==
    IF ContainerMounted /\ src # ""
    THEN /\ RendersStarted < MaxRenders
         /\ renderError' = NULL
         /\ renders' = Append(renders, [source |-> src, status |-> "pending"])
    ELSE UNCHANGED <<renderError, renders>>

\* The component has been mounted with some chart and its effect has run.
DiagramInit ==
    /\ AppInit
    /\ reply = NoReply
    /\ client = ClientIdle
    /\ chart \in Charts
    /\ svgContent = ""
    /\ zoomLevel = 10
    /\ renderError = NULL
    /\ renders = (IF chart # "" THEN <<[source |-> chart, status |-> "pending"]>> ELSE <<>>)
    /\ exports = <<>>
    /\ inputPanel = PanelIdle

\* The parent passes another chart; the effect of lines 241-256 runs.
ChartChanges(src) ==
    /\ src # chart
    /\ chart' = src
    /\ RenderChart(src)
    /\ UNCHANGED <<svgContent, zoomLevel, exports, appVars, clientVars, panelVars>>

\* Variant of lines 246-248 without the zoom reset.
RenderSucceedsKeepsZoom(i) ==
    /\ RenderAt(i).status = "pending"
    /\ MermaidAccepts(RenderAt(i).source)
    /\ svgContent' = Drawing(RenderAt(i).source)
    /\ renders' = [renders EXCEPT ![i].status = "done"]
    /\ UNCHANGED <<chart, zoomLevel, renderError, exports, appVars, clientVars, panelVars>>

\* Lines 246-248: mermaid.render resolves.
RenderSucceeds(i) ==
    /\ RenderAt(i).status = "pending"
    /\ MermaidAccepts(RenderAt(i).source)
    /\ svgContent' = Drawing(RenderAt(i).source)
    /\ zoomLevel' = 10
    /\ renders' = [renders EXCEPT ![i].status = "done"]
    /\ UNCHANGED <<chart, renderError, exports, appVars, clientVars, panelVars>>

\* Variant of lines 249-252 that only logs the failure.
RenderFailsSilently(i) ==
    /\ RenderAt(i).status = "pending"
    /\ ~MermaidAccepts(RenderAt(i).source)
    /\ renders' = [renders EXCEPT ![i].status = "failed"]
    /\ UNCHANGED <<chart, svgContent, zoomLevel, renderError, exports, appVars, clientVars, panelVars>>

\* Lines 249-252: mermaid.render rejects.
RenderFails(i) ==
    /\ RenderAt(i).status = "pending"
    /\ ~MermaidAccepts(RenderAt(i).source)
    /\ renderError' = FailedMsg
    /\ renders' = [renders EXCEPT ![i].status = "failed"]
    /\ UNCHANGED <<chart, svgContent, zoomLevel, exports, appVars, clientVars, panelVars>>

\* Lines 380-382: the zoom buttons, part of the view with the container.
ZoomIn ==
    /\ ContainerMounted
    /\ zoomLevel < MaxZoom
    /\ zoomLevel' = zoomLevel + 1
    /\ UNCHANGED <<chart, svgContent, renderError, renders, exports, appVars, clientVars, panelVars>>

ZoomOut ==
    /\ ContainerMounted
    /\ zoomLevel' = (IF zoomLevel - 1 < 5 THEN 5 ELSE zoomLevel - 1)
    /\ UNCHANGED <<chart, svgContent, renderError, renders, exports, appVars, clientVars, panelVars>>

ResetZoom ==
    /\ ContainerMounted
    /\ zoomLevel' = 10
    /\ UNCHANGED <<chart, svgContent, renderError, renders, exports, appVars, clientVars, panelVars>>

\* Variant of lines 274-277 that takes the measured box as it is.
HandleDownloadNoDefault(w, h) ==
    /\ ContainerMounted
    /\ svgContent # ""
    /\ ExportsStarted < MaxExports
    /\ exports' = Append(exports,
                      [NoExport EXCEPT !.stage = "loading",
                                       !.measuredWidth = w,
                                       !.measuredHeight = h,
                                       !.width = w,
                                       !.height = h])
    /\ UNCHANGED <<chart, svgContent, zoomLevel, renderError, renders, appVars, clientVars, panelVars>>

\* Lines 263-347 up to img.src: the download button with a drawing in the
\* container (without one, lines 268-271 alert and return).
HandleDownload(w, h) ==
    /\ ContainerMounted
    /\ svgContent # ""
    /\ ExportsStarted < MaxExports
    /\ exports' = Append(exports,
                      [NoExport EXCEPT !.stage = "loading",
                                       !.measuredWidth = w,
                                       !.measuredHeight = h,
                                       !.width = (IF w = 0 THEN 800 * TENTHS ELSE w),
                                       !.height = (IF h = 0 THEN 600 * TENTHS ELSE h)])
    /\ UNCHANGED <<chart, svgContent, zoomLevel, renderError, renders, appVars, clientVars, panelVars>>

\* Variant of lines 333-338 whose catch block only alerts.
ImgOnloadNoFallback(e, hasContext, tainted) ==
    /\ ExportAt(e).stage = "loading"
    /\ LET sized == [ExportAt(e) EXCEPT !.canvasWidth = CanvasSize(ExportAt(e).width),
                                       !.canvasHeight = CanvasSize(ExportAt(e).height)]
       IN  exports' = [exports EXCEPT ![e] =
               IF ~hasContext THEN [sized EXCEPT !.stage = "noContext"]
               ELSE IF tainted THEN [sized EXCEPT !.stage = "svg", !.threw = TRUE]
               ELSE [sized EXCEPT !.stage = "png", !.png = @ + 1]]
    /\ UNCHANGED <<chart, svgContent, zoomLevel, renderError, renders, appVars, clientVars, panelVars>>

\* Lines 304-339: img.onload.  getContext may give null; toDataURL throws on
\* a tainted canvas.
ImgOnload(e, hasContext, tainted) ==
    /\ ExportAt(e).stage = "loading"
    /\ LET sized == [ExportAt(e) EXCEPT !.canvasWidth = CanvasSize(ExportAt(e).width),
                                       !.canvasHeight = CanvasSize(ExportAt(e).height)]
       IN  exports' = [exports EXCEPT ![e] =
               IF ~hasContext THEN [sized EXCEPT !.stage = "noContext"]
               ELSE IF tainted
               THEN [sized EXCEPT !.stage = "svg", !.threw = TRUE, !.svg = @ + 1]
               ELSE [sized EXCEPT !.stage = "png", !.png = @ + 1]]
    /\ UNCHANGED <<chart, svgContent, zoomLevel, renderError, renders, appVars, clientVars, panelVars>>

\* Lines 341-345: img.onerror.
ImgOnerror(e) ==
    /\ ExportAt(e).stage = "loading"
    /\ exports' = [exports EXCEPT ![e].stage = "svgAfterLoadError", ![e].svg = @ + 1]
    /\ UNCHANGED <<chart, svgContent, zoomLevel, renderError, renders, appVars, clientVars, panelVars>>

DiagramNext ==
    \/ \E src \in Charts : ChartChanges(src)
    \/ \E i \in RenderIds : RenderSucceeds(i)
    \/ \E i \in RenderIds : RenderFails(i)
    \/ ZoomIn
    \/ ZoomOut
    \/ ResetZoom

SpecDiagram == DiagramInit /\ [][DiagramNext]_vars

\* The export pipeline on the drawing of the chart the component was mounted
\* with; several exports may be in progress at once.
ExportNext ==
    \/ \E i \in RenderIds : RenderSucceeds(i)
    \/ \E i \in RenderIds : RenderFails(i)
    \/ \E w \in Measured, h \in Measured : HandleDownload(w, h)
    \/ \E e \in ExportIds, hasContext \in BOOLEAN, tainted \in BOOLEAN :
           ImgOnload(e, hasContext, tainted)
    \/ \E e \in ExportIds : ImgOnerror(e)

SpecExport == DiagramInit /\ [][ExportNext]_vars

\* C18: when the render of a new non-empty chart succeeds, svgContent becomes
\* the drawing of that source and zoomLevel becomes 1, whatever the zoom
\* level was before.
C18_RenderReplacesDrawingAndResetsZoom ==
    [][\A i \in RenderIds :
          (RenderAt(i).status = "pending" /\ RenderAt(i)'.status = "done") =>
              /\ svgContent' = Drawing(RenderAt(i).source)
              /\ zoomLevel' = 10]_vars

C18_Witness ==
    /\ RenderAt(1).status = "done"
    /\ RenderAt(2).status = "done"
    /\ RenderAt(2).source # RenderAt(1).source
    /\ chart = RenderAt(2).source
    /\ svgContent = Drawing(chart)
    /\ zoomLevel = 10

\* C19: when rendering a source fails, the component is in its error state
\* and the pane shows "Failed to render diagram.", neither a blank pane nor
\* the previous drawing.
C19_RenderFailureShowsMessage ==
    [][\A i \in RenderIds :
          (RenderAt(i).status = "pending" /\ RenderAt(i)'.status = "failed") =>
              /\ renderError' = FailedMsg
              /\ Shown' = FailedMsg]_vars

C19_Witness ==
    /\ \E i \in RenderIds : RenderAt(i).status = "failed"
    /\ svgContent # ""
    /\ Shown = FailedMsg

\* C20: an export whose canvas.toDataURL threw ran downloadSVG exactly once
\* and triggered no PNG download; an export whose rasterization succeeded
\* triggered exactly one PNG download and no SVG download.
C20_ExportFallback ==
    \A e \in ExportIds :
        /\ ExportAt(e).threw => (ExportAt(e).svg = 1 /\ ExportAt(e).png = 0)
        /\ ExportAt(e).stage = "png" => (ExportAt(e).png = 1 /\ ExportAt(e).svg = 0)

C20_Witness ==
    /\ \E e \in ExportIds : ExportAt(e).threw /\ ExportAt(e).svg = 1 /\ ExportAt(e).png = 0
    /\ \E e \in ExportIds : ExportAt(e).stage = "png" /\ ExportAt(e).png = 1

\* An export whose img.onload created the canvas.
HasCanvas(e) == ExportAt(e).stage \in {"noContext", "svg", "png"}

\* The drawing's width and height as handleDownload uses them, in tenths.
WidthUsed(e) == IF ExportAt(e).measuredWidth = 0 THEN 800 * TENTHS ELSE ExportAt(e).measuredWidth
HeightUsed(e) == IF ExportAt(e).measuredHeight = 0 THEN 600 * TENTHS ELSE ExportAt(e).measuredHeight

\* C21 as stated: the canvas is exactly 3 x W wide and 3 x H high, W and H
\* being the measured width and height, 800 and 600 when measured as 0.
C21_CanvasIsThreeTimesMeasured ==
    \A e \in ExportIds :
        HasCanvas(e) =>
            /\ ExportAt(e).canvasWidth * TENTHS = 3 * WidthUsed(e)
            /\ ExportAt(e).canvasHeight * TENTHS = 3 * HeightUsed(e)

\* C21 amended: the canvas width and height are 3 x W and 3 x H cut down to
\* whole pixels, W and H being the measured width and height, 800 and 600
\* when measured as 0.
C21_CanvasIsThreeTimesMeasuredWholePixels ==
    \A e \in ExportIds :
        HasCanvas(e) =>
            /\ ExportAt(e).canvasWidth * TENTHS <= 3 * WidthUsed(e)
            /\ 3 * WidthUsed(e) < (ExportAt(e).canvasWidth + 1) * TENTHS
            /\ ExportAt(e).canvasHeight * TENTHS <= 3 * HeightUsed(e)
            /\ 3 * HeightUsed(e) < (ExportAt(e).canvasHeight + 1) * TENTHS

C21_Witness ==
    \E e \in ExportIds :
        /\ HasCanvas(e)
        /\ ExportAt(e).measuredWidth = 0
        /\ ExportAt(e).measuredHeight = 405
        /\ ExportAt(e).canvasWidth = 2400
        /\ ExportAt(e).canvasHeight = 121

(***************************************************************************)
(* Image upload: InputPanel.handleImageUpload (OutputPanel.tsx lines       *)
(* 496-513) and extractCodeFromImage (geminiService.ts lines 165-195).     *)
(* The upload button is disabled only while isAnalyzing, so uploads may    *)
(* overlap.                                                                *)
(***************************************************************************)

\* Replies of the model to "Extract raw code": texts with and without white
\* space around them.
OcrTexts == { <<>>, <<WS>>, <<NOISE>>, <<WS, NOISE, WS>>, <<NOISE, WS, NOISE>>,
              <<WS, WS, N429>> }

\* Line 506.
ExtractErrorCode == <<"# Error: Could not extract code from image.">>

UploadsStarted == Len(inputPanel.uploads)

\* Lines 500-512 after the await, when extractCodeFromImage rejected.
UploadRejected(u, why) ==
    inputPanel' = [inputPanel EXCEPT !.uploads[u].stage = "rejected",
                                     !.uploads[u].failed = why,
                                     !.code = ExtractErrorCode,
                                     !.isExtracting = FALSE]

\* A file is chosen (without one, line 498 returns).  Lines 183-184 throw
\* when the build has no API key; otherwise the file is being read.
HandleImageUpload ==
    /\ UploadsStarted < MaxUploads
    /\ IF apiKey
       THEN inputPanel' = [inputPanel EXCEPT
                               !.uploads = Append(@, [NoUpload EXCEPT !.stage = "reading"]),
                               !.isExtracting = TRUE]
       ELSE inputPanel' = [inputPanel EXCEPT
                               !.uploads = Append(@, [NoUpload EXCEPT !.stage = "rejected",
                                                                      !.failed = "key"]),
                               !.code = ExtractErrorCode,
                               !.isExtracting = FALSE]
    /\ UNCHANGED <<appVars, clientVars, diagramVars>>

\* Lines 168-172: reader.onloadend after a successful read; the model is called.
ReaderLoads(u) ==
    /\ UploadAt(u).stage = "reading"
    /\ inputPanel' = [inputPanel EXCEPT !.uploads[u].stage = "calling"]
    /\ UNCHANGED <<appVars, clientVars, diagramVars>>

\* Line 173: reader.onerror rejects (the loadend event that follows finds the
\* promise settled); line 192 catches and line 193 throws.
ReaderFails(u) ==
    /\ UploadAt(u).stage = "reading"
    /\ UploadRejected(u, "read")
    /\ UNCHANGED <<appVars, clientVars, diagramVars>>

\* Line 191: model.generateContent resolved; the text is trimmed and returned,
\* lines 502-503 and 508-509 follow.
UpstreamReplies(u, text) ==
    /\ UploadAt(u).stage = "calling"
    /\ inputPanel' = [inputPanel EXCEPT !.uploads[u].stage = "resolved",
                                        !.uploads[u].replyText = text,
                                        !.uploads[u].value = Trim(text),
                                        !.code = Trim(text),
                                        !.isExtracting = FALSE]
    /\ UNCHANGED <<appVars, clientVars, diagramVars>>

\* Variant of lines 192-194 that returns an empty text instead of throwing.
UpstreamFailsSwallowed(u) ==
    /\ UploadAt(u).stage = "calling"
    /\ inputPanel' = [inputPanel EXCEPT !.uploads[u].stage = "resolved",
                                        !.uploads[u].failed = "upstream",
                                        !.code = <<>>,
                                        !.isExtracting = FALSE]
    /\ UNCHANGED <<appVars, clientVars, diagramVars>>

\* Lines 190-194: model.generateContent or response.text() throws.
UpstreamFails(u) ==
    /\ UploadAt(u).stage = "calling"
    /\ UploadRejected(u, "upstream")
    /\ UNCHANGED <<appVars, clientVars, diagramVars>>

UploadNext ==
    \/ HandleImageUpload
    \/ \E u \in UploadIds : ReaderLoads(u)
    \/ \E u \in UploadIds : ReaderFails(u)
    \/ \E u \in UploadIds, text \in OcrTexts : UpstreamReplies(u, text)
    \/ \E u \in UploadIds : UpstreamFails(u)

SpecUpload == Init /\ [][UploadNext]_vars

\* text is full with white space removed from both ends, and nothing else.
IsTrimOf(text, full) ==
    /\ text # <<>> => (text[1] # WS /\ text[Len(text)] # WS)
    /\ \E i \in 0..Len(full) :
           /\ i + Len(text) <= Len(full)
           /\ \A k \in 1..Len(full) :
                  IF k > i /\ k <= i + Len(text) THEN full[k] = text[k - i]
                  ELSE full[k] = WS

\* C22: an upload whose file read or upstream call failed (or that found no
\* API key) never resolves with a text: it rejects, the editor shows the
\* failure text and isExtracting is false again; an upload that succeeds
\* resolves with the reply trimmed of outer white space, which becomes the
\* editor text, and isExtracting is false again.
C22_ExtractOutcome ==
    [][\A u \in UploadIds :
          LET before == UploadAt(u)
              after == UploadAt(u)'
          IN  /\ after.failed # "none" => after.stage = "rejected"
              /\ (before.stage # "rejected" /\ after.stage = "rejected") =>
                     /\ after.value = <<>>
                     /\ inputPanel'.code = ExtractErrorCode
                     /\ ~inputPanel'.isExtracting
              /\ (before.stage # "resolved" /\ after.stage = "resolved") =>
                     /\ IsTrimOf(after.value, after.replyText)
                     /\ inputPanel'.code = after.value
                     /\ ~inputPanel'.isExtracting]_vars

C22_Witness ==
    /\ UploadAt(1).stage = "rejected"
    /\ UploadAt(1).failed = "upstream"
    /\ UploadAt(2).stage = "resolved"
    /\ UploadAt(2).replyText = <<WS, NOISE, WS>>
    /\ inputPanel.code = <<NOISE>>
    /\ ~inputPanel.isExtracting

\* C23: when the race of request c rejects with an error other than the
\* timeout while c's controller is not aborted, error becomes the error's
\* message (the default text when it has none), isAnalyzing becomes false,
\* simulationData stays null and the controller stays un-aborted.
C23_UnexpectedErrorOutcome ==
    [][\A c \in ReqIds :
          (race[c] # "apiError" /\ race'[c] = "apiError" /\ ~controller[c].aborted) =>
              /\ error' = MessageOrDefault(ApiKeyMsg)
              /\ error' \notin {TimeoutMsg, NetLostMsg, NULL}
              /\ ~isAnalyzing'
              /\ simulationData' = NULL
              /\ ~controller'[c].aborted]_vars

C23_Witness ==
    \E c \in ReqIds :
        /\ c > 1
        /\ race[c] = "apiError"
        /\ abortControllerRef = c
        /\ last = [op |-> "visualize", r |-> c, wroteData |-> FALSE]
        /\ error = ApiKeyMsg
        /\ ~isAnalyzing
        /\ simulationData = NULL
        /\ ~controller[c].aborted

\* The fields of a fallback that hold a non-empty text (lines 32-45, 51-64,
\* 70-82: every field is a non-empty literal).
NonEmptyFieldsOf(v) == IF v \in Fallbacks THEN FiveFields ELSE {}

\* The words of lines 31 and 50 a symbol contains when letter case is ignored.
WordsIgnoringCase(sym) ==
    IF sym = N429 THEN {"429"}
    ELSE IF sym = JSONWORD THEN {"json"}
    ELSE IF sym = FIVEQ THEN {"quota"}
    ELSE IF sym = E429 THEN {"429", "quota", "exhausted"}
    ELSE IF sym = EBODY THEN {"json"}
    ELSE IF sym = PARSE_PREFIX THEN {"json"}
    ELSE IF sym = SYNTAX_ERROR THEN {"syntax"}
    ELSE {}

Mentions(text, words) ==
    \E i \in 1..Len(text) : WordsIgnoringCase(text[i]) \cap words # {}

\* C24: for every error text, one containing "429", "quota" or "exhausted" in
\* any letter case gives the quota fallback even when it also contains "json"
\* or "syntax"; otherwise one containing "json" or "syntax" gives the parsing
\* fallback; every other text gives the generic fallback; the fallback
\* returned has all five fields non-empty.
C24_FallbackClassification ==
    (ClientDone /\ client.errorText # <<>>) =>
        /\ client.returned =
               (IF Mentions(client.errorText, {"429", "quota", "exhausted"})
                THEN QuotaFallback
                ELSE IF Mentions(client.errorText, {"json", "syntax"})
                THEN ParsingFallback
                ELSE GenericFallback)
        /\ NonEmptyFieldsOf(client.returned) = FiveFields

C24_Witness ==
    /\ reply.body = <<LB, N429>>
    /\ Mentions(client.errorText, {"429"})
    /\ Mentions(client.errorText, {"json", "syntax"})
    /\ client.returned = QuotaFallback

\* C25: whenever the fence-stripped, trimmed text has a "{" and a "}", the
\* text cleanJsonString returns starts with "{" and ends with "}", also when
\* the first "{" comes after the last "}".
C25_ResultIsBraceEnclosed ==
    (ClientDone /\ reply.kind = "text"
        /\ Has(Remaining(reply.body), LB) /\ Has(Remaining(reply.body), RB)) =>
            /\ client.cleaned # <<>>
            /\ client.cleaned[1] = LB
            /\ client.cleaned[Len(client.cleaned)] = RB

\* C26: when the component is in its error view and chart changes to a source
\* mermaid can draw, the error is cleared and a render of the new source is
\* started, so that the new drawing replaces the error view.
C26_ErrorViewRecovers ==
    [][(renderError # NULL /\ chart' # chart /\ MermaidAccepts(chart')) =>
          /\ renderError' = NULL
          /\ \E i \in RenderIds :
                 RenderAt(i)' = [source |-> chart', status |-> "pending"]]_vars

\* What the pane shows for a chart whose render has completed.
OutcomeOf(src) == IF MermaidAccepts(src) THEN Drawing(src) ELSE FailedMsg

\* C27: once no mermaid.render call is pending, and the call started last was
\* for the current chart, the pane shows the drawing or the error of the
\* current chart; this covers a chart change made while an earlier call was
\* pending, in both orders of completion.
C27_LatestChartWins ==
    (/\ RendersStarted >= 2
     /\ \A i \in RenderIds : RenderAt(i).status # "pending"
     /\ RenderAt(RendersStarted).source = chart)
        => Shown = OutcomeOf(chart)

\* The request abortControllerRef points at has written its result.
CurrentCommitted ==
    /\ abortControllerRef # NoRef
    /\ race[abortControllerRef] = "value"
    /\ simulationData # NULL

\* Lines 85-122 of OutputPanel: the view is picked in this order.
OutputView ==
    IF isAnalyzing THEN "loading"
    ELSE IF error # NULL THEN "error"
    ELSE IF simulationData = NULL THEN "idle"
    ELSE "result"

\* C28: whenever the current request has committed its result and isAnalyzing
\* is false, error is null and OutputPanel shows the result dashboard.
C28_CommittedResultIsShown ==
    (CurrentCommitted /\ ~isAnalyzing) => (error = NULL /\ OutputView = "result")

\* C29: an armed timer is never cancelled, it can only fire; when it fires
\* after the API call settled the race of its request, the firing changes
\* none of simulationData, error and isAnalyzing and aborts no controller,
\* also while a newer request is in flight.
C29_LateTimerIsSilent ==
    [][\A c \in ReqIds :
          /\ timer[c] = "armed" => timer'[c] \in {"armed", "fired"}
          /\ (timer[c] = "armed" /\ timer'[c] = "fired"
                  /\ race[c] \in {"value", "apiError"}) =>
                 UNCHANGED <<simulationData, error, isAnalyzing, controller>>]_vars

C29_Witness ==
    \E c \in ReqIds, d \in ReqIds :
        /\ c < d
        /\ race[c] = "value"
        /\ timer[c] = "fired"
        /\ last = [op |-> "timer", r |-> c, wroteData |-> FALSE]
        /\ race[d] = "pending"
        /\ abortControllerRef = d
        /\ isAnalyzing
        /\ ~controller[d].aborted

====
